---- MODULE Spec2Model ----
(***************************************************************************)
(* The lazily populated tree of uawidgets/tree_widget.py: TreeViewModel    *)
(* (a QStandardItemModel holding one row of items per OPC-UA node, plus    *)
(* the list _fetched of nodes whose children were requested) and the       *)
(* TreeWidget operations that drive it; and the session side of            *)
(* uaclient/: UaClient with its subscriptions and the lists of subscribed  *)
(* nodes of DataChangeUI and EventUI.  The OPC-UA server is the            *)
(* environment: every answer it gives is an input of the action that asks. *)
(*                                                                         *)
(* Spec drives the tree (the session variables stay as constructed);       *)
(* SpecDC drives the session and the subscriptions (the tree is set and    *)
(* cleared by connect and disconnect and never expanded; connect is to     *)
(* the address the combo box shows, the first of the address list).        *)
(* SpecAddr drives the address list of the main window.                    *)
(***************************************************************************)
EXTENDS Integers, Sequences, FiniteSets, TLC

VARIABLES items, fetched, lastOp, ua, dc_subscribed_nodes, dc_rows,
          ev_subscribed_nodes, lastDc, address_list, lastUpdate

treeVars == <<items, fetched, lastOp>>
dcVars == <<ua, dc_subscribed_nodes, dc_rows, ev_subscribed_nodes, lastDc>>
addrVars == <<address_list, lastUpdate>>
vars == <<items, fetched, lastOp, ua, dc_subscribed_nodes, dc_rows,
          ev_subscribed_nodes, lastDc, address_list, lastUpdate>>

(***************************************************************************)
(* Bounds                                                                  *)
(***************************************************************************)
\* items in the tree at one time
MaxItems == 3
\* longest answer of get_children_descriptions
MaxAnswer == 2
\* handles one subscription object gives out
MaxHandles == 2
\* the setting address_list_max_count (10 when the setting is absent)
address_list_max_count == 3

(***************************************************************************)
(* The address space of the server.  A Node compares equal by its NodeId,  *)
(* so a node is represented by its NodeId.  The references between nodes   *)
(* are not fixed: any node may be reported as a child of any node.         *)
(***************************************************************************)
RootNode == 1
Nodes == {1, 2, 3}

\* QualifiedName of each node: NamespaceIndex and Name (names coded as
\* numbers in alphabetical order).  Nodes 2 and 3 share a browse name.
BrowseNameOf ==
    [n \in Nodes |->
        CASE n = 1 -> [NamespaceIndex |-> 0, Name |-> 2]
          [] n = 2 -> [NamespaceIndex |-> 1, Name |-> 1]
          [] OTHER -> [NamespaceIndex |-> 1, Name |-> 1]]

\* QualifiedName.to_string(): "<NamespaceIndex>:<Name>"
to_string(q) == <<q.NamespaceIndex, ":", q.Name>>

\* the order descriptions.sort(key=lambda x: x.BrowseName) compares with
QNameLess(a, b) ==
    IF a.NamespaceIndex = b.NamespaceIndex
    THEN a.Name < b.Name
    ELSE a.NamespaceIndex < b.NamespaceIndex

\* a ReferenceDescription as far as the tree uses it
Desc(n) == [NodeId |-> n, BrowseName |-> BrowseNameOf[n]]

\* the answers get_children_descriptions can give: descriptions of distinct
\* nodes in any order
Answers ==
    {<<>>} \cup
    UNION {{[i \in 1..k |-> Desc(f[i])] :
              f \in {g \in [1..k -> Nodes] :
                       \A i, j \in 1..k : i # j => g[i] # g[j]}} :
           k \in 1..MaxAnswer}

(***************************************************************************)
(* Items.  An item is addressed as a QModelIndex addresses it: by the row  *)
(* numbers from the top level down to it.  The invalid index (the          *)
(* placeholder above the top-level rows) is the empty sequence, and so is  *)
(* parent() of a top-level item.                                           *)
(***************************************************************************)
Invalid == <<>>

\* QStandardItem.parent()
Parent(idx) == SubSeq(idx, 1, Len(idx) - 1)

\* rowCount of an item (or of the model for the invalid index)
rowCount(its, idx) ==
    Cardinality({p \in DOMAIN its : Len(p) = Len(idx) + 1 /\ Parent(p) = idx})

\* whether p is idx or lies below it
Below(idx, p) == Len(p) >= Len(idx) /\ SubSeq(p, 1, Len(idx)) = idx

\* an item's rows with everything under them
Subtree(its, idx) ==
    [p \in {q \in DOMAIN its : Below(idx, q) /\ q # idx} |-> its[p]]

\* a takeRow(0) that leaves the row in place
takeRow0_Keeps(its, idx) == its

\* takeRow(0) / removeRow(0) on item idx: the first row goes with all below
\* it, the rows behind it move up
takeRow0(its, idx) ==
    LET first == idx \o <<1>>
        keep  == {p \in DOMAIN its : ~Below(first, p)}
        Moved(p) == IF Below(idx, p) /\ p # idx
                    THEN idx \o <<p[Len(idx) + 1] - 1>> \o SubSeq(p, Len(idx) + 2, Len(p))
                    ELSE p
        Orig(q) == CHOOSE p \in keep : Moved(p) = q
    IN  [q \in {Moved(p) : p \in keep} |-> its[Orig(q)]]

(***************************************************************************)
(* Pure helpers                                                            *)
(***************************************************************************)
\* an insertion that puts an element before its equals
InsertSorted_BeforeEquals(d, s) ==
    LET k == Cardinality({i \in 1..Len(s) :
                            QNameLess(s[i].BrowseName, d.BrowseName)})
    IN  SubSeq(s, 1, k) \o <<d>> \o SubSeq(s, k + 1, Len(s))

\* list.sort is stable: an element goes behind every element not greater
InsertSorted(d, s) ==
    LET k == Cardinality({i \in 1..Len(s) :
                            ~QNameLess(d.BrowseName, s[i].BrowseName)})
    IN  SubSeq(s, 1, k) \o <<d>> \o SubSeq(s, k + 1, Len(s))

RECURSIVE SortDescs(_)
SortDescs(s) ==
    IF s = <<>> THEN <<>>
    ELSE InsertSorted(s[Len(s)], SortDescs(SubSeq(s, 1, Len(s) - 1)))

(***************************************************************************)
(* TreeViewModel.  A model state m is a record of the program variables;   *)
(* each method is an operator from model state to model state.             *)
(* The list _fetched is only ever asked "node in _fetched", appended to    *)
(* when the node is not in it, and reduced by remove(node); it never holds *)
(* a node twice and its order is never read: it is kept as a set.          *)
(***************************************************************************)
Model == [items |-> items, fetched |-> fetched]

EmptyItems == [p \in {} |-> 0]

\* _create_items: column 0 carries the node (Qt.UserRole), column 1 the
\* browse name text, column 2 the NodeId text of the description
_create_items(desc, node) ==
    [node |-> node, bname |-> to_string(desc.BrowseName), nodeid |-> desc.NodeId]

\* appendRow on item idx (on the model itself for the invalid index)
appendRow(its, idx, item) ==
    LET new == idx \o <<rowCount(its, idx) + 1>>
    IN  [p \in DOMAIN its \cup {new} |-> IF p = new THEN item ELSE its[p]]

\* a clear that removes the rows and keeps _fetched
clear_KeepsFetched(m) == [m EXCEPT !.items = EmptyItems]

\* clear: removeRows(0, rowCount()); _fetched = []
clear(m) == [m EXCEPT !.items = EmptyItems, !.fetched = {}]

\* add_item_by_node
add_item_by_node(m, desc, node) ==
    [m EXCEPT !.items = appendRow(@, Invalid, _create_items(desc, node))]

\* add_item_with_parent, given the node parent_node.get_child returned
add_item_with_parent(m, desc, parent, node) ==
    [m EXCEPT !.items = appendRow(@, parent, _create_items(desc, node))]

\* a reset_cache that forgets nothing
reset_cache_Keeps(m, node) == m

\* reset_cache: _fetched.remove(node), a ValueError is swallowed
reset_cache(m, node) == [m EXCEPT !.fetched = @ \ {node}]

\* a canFetchMore that does not record the node in _fetched
canFetchMore_NoMark(m, parent) ==
    IF parent = Invalid THEN [ret |-> FALSE, m |-> m]
    ELSE [ret |-> m.items[parent].node \notin m.fetched, m |-> m]

\* canFetchMore: what it returns and the model state it leaves
canFetchMore(m, parent) ==
    IF parent = Invalid THEN [ret |-> FALSE, m |-> m]
    ELSE IF m.items[parent].node \notin m.fetched
         THEN [ret |-> TRUE,
               m |-> [m EXCEPT !.fetched = @ \cup {m.items[parent].node}]]
         ELSE [ret |-> FALSE, m |-> m]

\* the loop of fetchMore: the first n descriptions are appended.
\* pick[i] is the node get_child returned for the i-th description.
RECURSIVE AppendDescs(_, _, _, _, _)
AppendDescs(m, parent, descs, pick, n) ==
    IF n = 0 THEN m
    ELSE add_item_with_parent(AppendDescs(m, parent, descs, pick, n - 1),
                              descs[n], parent, pick[n])

\* fetchMore: the answer is sorted by BrowseName and appended;
\* n = Len(answer) unless get_child raised at description n + 1
fetchMore(m, idx, answer, pick, n) ==
    AppendDescs(m, idx, SortDescs(answer), pick, n)

\* the nodes parent_node.get_child(bname) can return: a child of the parent
\* with that browse name
get_child(answer, bname) ==
    {answer[i].NodeId : i \in {j \in 1..Len(answer) :
                                 to_string(answer[j].BrowseName) = bname}}

Picks(answer) ==
    LET s == SortDescs(answer)
    IN  {p \in [1..Len(s) -> Nodes] :
           \A i \in 1..Len(s) : p[i] \in get_child(answer, to_string(s[i].BrowseName))}

\* the ways one fetchMore can go: the answer, the nodes get_child returns and
\* the number n of rows appended (n < Len(answer) when get_child raised at
\* description n + 1)
Fetches ==
    UNION {{[answer |-> a, pick |-> p, n |-> n] : p \in Picks(a), n \in 0..Len(a)} :
           a \in Answers}

\* a hasChildren without the test for the invalid index
hasChildren_NoPlaceholder(idx, answer) == answer # <<>>

\* hasChildren: TRUE for the invalid index, otherwise whether the answer of
\* get_children_descriptions (asked on every call) is non-empty
hasChildren(idx, answer) ==
    IF idx = Invalid THEN TRUE ELSE answer # <<>>

(***************************************************************************)
(* TreeWidget                                                              *)
(***************************************************************************)
\* the loop of reload: for every row, reset_cache(child node); takeRow(0)
RECURSIVE ReloadRows(_, _, _)
ReloadRows(m, item, n) ==
    IF n = 0 THEN m
    ELSE LET m1 == reset_cache(m, m.items[item \o <<1>>].node)
         IN  ReloadRows([m1 EXCEPT !.items = takeRow0(@, item)], item, n - 1)

\* reload(item): empty the item, then reset_cache(node of the item)
reload(m, item) ==
    LET m1 == ReloadRows(m, item, rowCount(m.items, item))
    IN  reset_cache(m1, m1.items[item].node)

\* get_current_path: from the current item up the parent() links, the browse
\* name of each item's node, read from the server, inserted at the front
RECURSIVE PathFrom(_, _, _)
PathFrom(its, it, path) ==
    IF it = Invalid THEN path
    ELSE PathFrom(its, Parent(it), <<to_string(BrowseNameOf[its[it].node])>> \o path)

\* a get_current_path that stops below the top-level item
get_current_path_BelowRoot(m, idx) ==
    IF idx = Invalid THEN <<>> ELSE Tail(PathFrom(m.items, idx, <<>>))

get_current_path(m, idx) == PathFrom(m.items, idx, <<>>)

\* TreeViewModel.set_root_node: assert not _fetched; _get_node_desc(node)
\* (reads the server, described = FALSE when a read raises); add_item_by_node
set_root_node(m, node, described) ==
    IF m.fetched # {} THEN [outcome |-> "assert", m |-> m]
    ELSE IF ~described THEN [outcome |-> "raised", m |-> m]
    ELSE [outcome |-> "ok", m |-> add_item_by_node(m, Desc(node), node)]

\* a TreeWidget.set_root_node without model.clear()
TreeWidget_set_root_node_NoClear(m, node, described) ==
    set_root_node(m, node, described)

\* TreeWidget.set_root_node: model.clear(); model.set_root_node(node).
\* Its last statement, view.expandToDepth(0), changes the model only through
\* the requests the view then makes: the actions HasChildren and
\* ChildrenRequest below.
TreeWidget_set_root_node(m, node, described) ==
    set_root_node(clear(m), node, described)

(***************************************************************************)
(* UaClient.  client is whether self.client is a Client object (not None). *)
(* A Subscription object of the library is the set of handles it monitors  *)
(* and the next handle it gives out; made is FALSE for None.  A call into  *)
(* the library (connect, disconnect, create_subscription, subscribe,       *)
(* unsubscribe, reads of a node) can raise whenever it is made, and can    *)
(* return only while the session is connected.                             *)
(***************************************************************************)
None == 0

\* the nodes the user asks subscriptions for
SubNodes == {1, 2}

Range(s) == {s[i] : i \in DOMAIN s}

EmptyMap == [n \in {} |-> 0]

NoSub == [made |-> FALSE, monitored |-> {}, next |-> 1]

\* UaClient.__init__
UaClient_init ==
    [client |-> FALSE, connected |-> FALSE,
     datachange_sub |-> NoSub, event_sub |-> NoSub,
     subs_dc |-> EmptyMap, subs_ev |-> EmptyMap]

\* UaClient._reset
_reset(u) ==
    [u EXCEPT !.client = FALSE, !.connected = FALSE,
              !.datachange_sub = NoSub, !.event_sub = NoSub,
              !.subs_dc = EmptyMap, !.subs_ev = EmptyMap]

\* a disconnect that resets only after client.disconnect() returned
disconnect_NoFinally(u, libOk) ==
    IF u.connected
    THEN IF libOk THEN [outcome |-> "ok", u |-> _reset(u)]
                  ELSE [outcome |-> "raised", u |-> u]
    ELSE [outcome |-> "ok", u |-> u]

\* UaClient.disconnect: client.disconnect() inside try/finally with _reset;
\* nothing when not connected
disconnect(u, libOk) ==
    IF u.connected
    THEN [outcome |-> IF libOk THEN "ok" ELSE "raised", u |-> _reset(u)]
    ELSE [outcome |-> "ok", u |-> u]

\* UaClient.connect: disconnect(); client = Client(uri); client.connect();
\* _connected = True
connect(u, discOk, connOk) ==
    LET d == disconnect(u, discOk)
    IN  IF d.outcome = "raised" THEN d
        ELSE IF ~connOk
             THEN [outcome |-> "raised", u |-> [d.u EXCEPT !.client = TRUE]]
             ELSE [outcome |-> "ok",
                   u |-> [d.u EXCEPT !.client = TRUE, !.connected = TRUE]]

\* dict assignment d[key] = value
SetItem(d, key, value) ==
    [k \in DOMAIN d \cup {key} |-> IF k = key THEN value ELSE d[k]]

\* UaClient.subscribe_datachange.  lib says how the library calls go: "ok",
\* "create_raised" (create_subscription raises) or "subscribe_raised"
\* (subscribe_data_change raises)
subscribe_datachange(u, node, lib) ==
    IF ~u.client THEN [outcome |-> "assert", u |-> u]
    ELSE IF ~u.datachange_sub.made /\ lib = "create_raised"
         THEN [outcome |-> "raised", u |-> u]
    ELSE LET u1 == [u EXCEPT !.datachange_sub.made = TRUE]
             handle == u1.datachange_sub.next
         IN  IF lib # "ok" THEN [outcome |-> "raised", u |-> u1]
             ELSE [outcome |-> "ok",
                   u |-> [u1 EXCEPT !.datachange_sub.monitored = @ \cup {handle},
                                    !.datachange_sub.next = handle + 1,
                                    !.subs_dc = SetItem(@, node, handle)]]

\* UaClient.unsubscribe_datachange: the handle stays in _subs_dc
unsubscribe_datachange(u, node, libOk) ==
    IF ~u.datachange_sub.made THEN [outcome |-> "assert", u |-> u]
    ELSE IF node \notin DOMAIN u.subs_dc THEN [outcome |-> "KeyError", u |-> u]
    ELSE IF ~libOk THEN [outcome |-> "raised", u |-> u]
    ELSE [outcome |-> "ok",
          u |-> [u EXCEPT !.datachange_sub.monitored = @ \ {u.subs_dc[node]}]]

\* UaClient.subscribe_events, lib as for subscribe_datachange
subscribe_events(u, node, lib) ==
    IF ~u.client THEN [outcome |-> "assert", u |-> u]
    ELSE IF ~u.event_sub.made /\ lib = "create_raised"
         THEN [outcome |-> "raised", u |-> u]
    ELSE LET u1 == [u EXCEPT !.event_sub.made = TRUE]
             handle == u1.event_sub.next
         IN  IF lib # "ok" THEN [outcome |-> "raised", u |-> u1]
             ELSE [outcome |-> "ok",
                   u |-> [u1 EXCEPT !.event_sub.monitored = @ \cup {handle},
                                    !.event_sub.next = handle + 1,
                                    !.subs_ev = SetItem(@, node, handle)]]

\* UaClient.unsubscribe_events: the handle stays in _subs_ev
unsubscribe_events(u, node, libOk) ==
    IF ~u.event_sub.made THEN [outcome |-> "assert", u |-> u]
    ELSE IF node \notin DOMAIN u.subs_ev THEN [outcome |-> "KeyError", u |-> u]
    ELSE IF ~libOk THEN [outcome |-> "raised", u |-> u]
    ELSE [outcome |-> "ok",
          u |-> [u EXCEPT !.event_sub.monitored = @ \ {u.subs_ev[node]}]]

(***************************************************************************)
(* DataChangeUI and EventUI.  A state s of the session is the UaClient,    *)
(* the list _subscribed_nodes of DataChangeUI and the rows of its          *)
(* subscription model, each row given by the node in its first item, and   *)
(* the list _subscribed_nodes of EventUI (ev).                             *)
(***************************************************************************)
Session ==
    [ua |-> ua, nodes |-> dc_subscribed_nodes, rows |-> dc_rows,
     ev |-> ev_subscribed_nodes]

\* takeRow(i) / removeRow(i), rows counted from 0
takeRow(rows, i) == SubSeq(rows, 1, i) \o SubSeq(rows, i + 2, Len(rows))

\* list.remove(x): the first occurrence goes
Remove(s, x) ==
    LET i == CHOOSE k \in 1..Len(s) : s[k] = x /\ \A j \in 1..(k - 1) : s[j] # x
    IN  SubSeq(s, 1, i - 1) \o SubSeq(s, i + 1, Len(s))

\* the loop of _unsubscribe: i = 0; while model.item(i): removeRow(i) when
\* the item's data is the node; i += 1
RECURSIVE RemoveRowsOf(_, _, _)
RemoveRowsOf(rows, node, i) ==
    IF i >= Len(rows) THEN rows
    ELSE IF rows[i + 1] = node
         THEN RemoveRowsOf(takeRow(rows, i), node, i + 1)
         ELSE RemoveRowsOf(rows, node, i + 1)

\* DataChangeUI._subscribe(node); named is whether node.get_display_name()
\* returned
DataChangeUI_subscribe(s, node, named, lib) ==
    IF node = None THEN [outcome |-> "none", s |-> s]
    ELSE IF node \in Range(s.nodes) THEN [outcome |-> "already", s |-> s]
    ELSE IF ~named THEN [outcome |-> "raised", s |-> s]
    ELSE LET s1 == [s EXCEPT !.rows = Append(@, node), !.nodes = Append(@, node)]
             row == Len(s1.rows) - 1
             r == subscribe_datachange(s1.ua, node, lib)
         IN  IF r.outcome = "ok"
             THEN [outcome |-> "ok", s |-> [s1 EXCEPT !.ua = r.u]]
             ELSE [outcome |-> r.outcome,
                   s |-> [s1 EXCEPT !.ua = r.u, !.rows = takeRow(@, row)]]

\* DataChangeUI._unsubscribe with node the current node
DataChangeUI_unsubscribe(s, node, libOk) ==
    IF node = None THEN [outcome |-> "none", s |-> s]
    ELSE LET r == unsubscribe_datachange(s.ua, node, libOk)
         IN  IF r.outcome # "ok" THEN [outcome |-> r.outcome, s |-> s]
             ELSE IF node \notin Range(s.nodes)
                  THEN [outcome |-> "ValueError", s |-> [s EXCEPT !.ua = r.u]]
             ELSE [outcome |-> "ok",
                   s |-> [s EXCEPT !.ua = r.u, !.nodes = Remove(@, node),
                                   !.rows = RemoveRowsOf(@, node, 0)]]

\* DataChangeUI.clear
DataChangeUI_clear(s) == [s EXCEPT !.nodes = <<>>, !.rows = <<>>]

\* EventUI._subscribe(node): the node is appended in the else branch of the
\* try around subscribe_events
EventUI_subscribe(s, node, lib) ==
    IF node = None THEN [outcome |-> "none", s |-> s]
    ELSE IF node \in Range(s.ev) THEN [outcome |-> "already", s |-> s]
    ELSE LET r == subscribe_events(s.ua, node, lib)
         IN  IF r.outcome = "ok"
             THEN [outcome |-> "ok", s |-> [s EXCEPT !.ua = r.u, !.ev = Append(@, node)]]
             ELSE [outcome |-> r.outcome, s |-> [s EXCEPT !.ua = r.u]]

\* EventUI._unsubscribe with node the current node: _subscribed_nodes.remove
\* comes first, then unsubscribe_events
EventUI_unsubscribe(s, node, libOk) ==
    IF node = None THEN [outcome |-> "none", s |-> s]
    ELSE IF node \notin Range(s.ev) THEN [outcome |-> "ValueError", s |-> s]
    ELSE LET r == unsubscribe_events(s.ua, node, libOk)
         IN  [outcome |-> r.outcome,
              s |-> [s EXCEPT !.ua = r.u, !.ev = Remove(@, node)]]

\* EventUI.clear
EventUI_clear(s) == [s EXCEPT !.ev = <<>>]

InstallSession(s) ==
    /\ ua' = s.ua
    /\ dc_subscribed_nodes' = s.nodes
    /\ dc_rows' = s.rows
    /\ ev_subscribed_nodes' = s.ev

(***************************************************************************)
(* The address list of the main window.  A uri is a number.                *)
(***************************************************************************)
\* the uris the user can type into the combo box
Uris == 1..(address_list_max_count + 2)

\* the list used when the setting address_list is absent
adr_default == <<1, 2>>

\* an _update_address_list that does not take the uri out of the list first
_update_address_list_NoRemove(list, uri) ==
    IF uri = list[1] THEN list
    ELSE LET l2 == <<uri>> \o list
         IN  IF Len(l2) > address_list_max_count
             THEN SubSeq(l2, 1, Len(l2) - 1)
             ELSE l2

\* Window._update_address_list(uri)
_update_address_list(list, uri) ==
    IF uri = list[1] THEN list
    ELSE LET l1 == IF uri \in Range(list) THEN Remove(list, uri) ELSE list
             l2 == <<uri>> \o l1
         IN  IF Len(l2) > address_list_max_count
             THEN SubSeq(l2, 1, Len(l2) - 1)
             ELSE l2

(***************************************************************************)
(* History: the last operation, what it returned and the calls it made to  *)
(* the server.                                                             *)
(*   op      the operation          item    the index it was given         *)
(*   ret     the boolean returned   outcome "ok" or what raised            *)
(*   calls   calls of get_children_descriptions                            *)
(*   reads   all other calls to the server                                 *)
(*   answer  what get_children_descriptions answered to a fetchMore that   *)
(*           returned, or to hasChildren                                   *)
(*   path    the result of get_current_path                                *)
(*   before  for a request: "reload" when the operation before it was the  *)
(*           reload of the same index; for set_root and clear: "populated" *)
(*           when a fetched tree was cached                                *)
(***************************************************************************)
Op(op, item, ret, outcome, calls, reads, answer, path, before) ==
    [op |-> op, item |-> item, ret |-> ret, outcome |-> outcome,
     calls |-> calls, reads |-> reads, answer |-> answer, path |-> path,
     before |-> before]

BeforeRequest(idx) ==
    IF lastOp.item = idx /\ lastOp.op = "reload" THEN "reload" ELSE "other"

BeforeSetRoot ==
    IF fetched # {} /\ Cardinality(DOMAIN items) > 1 THEN "populated" ELSE "other"

Install(m) ==
    /\ items' = m.items
    /\ fetched' = m.fetched

(***************************************************************************)
(* Initial state: TreeWidget.__init__ built the model and cleared it       *)
(***************************************************************************)
Init ==
    /\ items = EmptyItems
    /\ fetched = {}
    /\ lastOp = Op("init", Invalid, FALSE, "ok", 0, 0, <<>>, <<>>, "other")
    /\ ua = UaClient_init
    /\ dc_subscribed_nodes = <<>>
    /\ dc_rows = <<>>
    /\ ev_subscribed_nodes = <<>>
    /\ lastDc = [op |-> "init", node |-> None, outcome |-> "ok"]
    /\ address_list = adr_default
    /\ lastUpdate = [uri |-> None, before |-> <<>>]

(***************************************************************************)
(* Actions                                                                 *)
(***************************************************************************)
Indexes == DOMAIN items \cup {Invalid}

\* Window.connect -> TreeWidget.set_root_node(client.nodes.root)
SetRoot ==
    \E described \in BOOLEAN :
      /\ Install(TreeWidget_set_root_node(Model, RootNode, described).m)
      /\ lastOp' = Op("set_root", Invalid, FALSE,
                      TreeWidget_set_root_node(Model, RootNode, described).outcome,
                      0, IF described THEN 3 ELSE 1, <<>>, <<>>, BeforeSetRoot)
      /\ UNCHANGED <<dcVars, addrVars>>

\* Window.disconnect -> TreeWidget.clear
Clear ==
    /\ Install(clear(Model))
    /\ lastOp' = Op("clear", Invalid, FALSE, "ok", 0, 0, <<>>, <<>>, BeforeSetRoot)
    /\ UNCHANGED <<dcVars, addrVars>>

\* hasChildren reads of the answer only whether it is empty: the answers
\* given to it are the empty one and those of one description
AnswersAsked == {a \in Answers : Len(a) <= 1}

\* a hasChildren that records the node in _fetched as canFetchMore does
HasChildren_Marks ==
    \E idx \in DOMAIN items :
      /\ items' = items
      /\ fetched' = fetched \cup {items[idx].node}
      /\ UNCHANGED <<dcVars, addrVars>>
      /\ \E answer \in AnswersAsked :
           lastOp' = Op("hasChildren", idx, hasChildren(idx, answer), "ok", 1, 0,
                        answer, <<>>, "other")

\* the view asks hasChildren(idx): no server call for the invalid index,
\* otherwise get_children_descriptions answers or raises
HasChildren ==
    \E idx \in Indexes :
      /\ UNCHANGED <<items, fetched>>
      /\ UNCHANGED <<dcVars, addrVars>>
      /\ \/ /\ idx = Invalid
            /\ lastOp' = Op("hasChildren", idx, hasChildren(idx, <<>>), "ok", 0, 0,
                            <<>>, <<>>, "other")
         \/ /\ idx # Invalid
            /\ \E answer \in AnswersAsked :
                 lastOp' = Op("hasChildren", idx, hasChildren(idx, answer), "ok", 1, 0,
                              answer, <<>>, "other")
         \/ /\ idx # Invalid
            /\ lastOp' = Op("hasChildren", idx, FALSE, "raised", 1, 0, <<>>, <<>>,
                            "other")

\* the view asks for the children of idx: canFetchMore(idx) and, when it
\* returned True, fetchMore(idx)
RequestNoFetch(idx) ==
    /\ ~canFetchMore(Model, idx).ret
    /\ Install(canFetchMore(Model, idx).m)
    /\ lastOp' = Op("request", idx, FALSE, "ok", 0, 0, <<>>, <<>>, BeforeRequest(idx))

\* get_children_descriptions raised
RequestSourceFails(idx) ==
    /\ canFetchMore(Model, idx).ret
    /\ Install(canFetchMore(Model, idx).m)
    /\ lastOp' = Op("request", idx, TRUE, "source_raised", 1, 0, <<>>, <<>>,
                    BeforeRequest(idx))

\* the answer came and every description became a row
RequestFetch(idx) ==
    /\ canFetchMore(Model, idx).ret
    /\ \E f \in {g \in Fetches : g.n = Len(g.answer)} :
         /\ Cardinality(DOMAIN items) + f.n <= MaxItems
         /\ Install(fetchMore(canFetchMore(Model, idx).m, idx, f.answer, f.pick, f.n))
         /\ lastOp' = Op("request", idx, TRUE, "ok", 1, f.n, f.answer, <<>>,
                         BeforeRequest(idx))

\* the answer came; get_child raised at description n + 1
RequestChildFails(idx) ==
    /\ canFetchMore(Model, idx).ret
    /\ \E f \in {g \in Fetches : g.n < Len(g.answer)} :
         /\ Cardinality(DOMAIN items) + f.n <= MaxItems
         /\ Install(fetchMore(canFetchMore(Model, idx).m, idx, f.answer, f.pick, f.n))
         /\ lastOp' = Op("request", idx, TRUE, "child_raised", 1, f.n + 1, <<>>, <<>>,
                         BeforeRequest(idx))

ChildrenRequest ==
    /\ UNCHANGED <<dcVars, addrVars>>
    /\ \E idx \in Indexes :
         \/ RequestNoFetch(idx)
         \/ RequestSourceFails(idx)
         \/ RequestFetch(idx)
         \/ RequestChildFails(idx)

\* reload_current on the current item
Reload ==
    \E item \in DOMAIN items :
      /\ Install(reload(Model, item))
      /\ lastOp' = Op("reload", item, FALSE, "ok", 0, 0, <<>>, <<>>, "other")
      /\ UNCHANGED <<dcVars, addrVars>>

\* copy_path -> get_current_path with idx the current index
GetCurrentPath ==
    \E idx \in Indexes :
      /\ UNCHANGED <<items, fetched>>
      /\ UNCHANGED <<dcVars, addrVars>>
      /\ \/ lastOp' = Op("path", idx, FALSE, "ok", 0,
                         Len(get_current_path(Model, idx)), <<>>,
                         get_current_path(Model, idx), "other")
         \/ /\ idx # Invalid
            /\ lastOp' = Op("path", idx, FALSE, "raised", 0, 1, <<>>, <<>>, "other")

Next ==
    \/ SetRoot
    \/ Clear
    \/ HasChildren
    \/ ChildrenRequest
    \/ Reload
    \/ GetCurrentPath

Spec == Init /\ [][Next]_vars

(***************************************************************************)
(* The session: Window.connect, Window.disconnect and the data-change      *)
(* subscriptions of DataChangeUI                                           *)
(***************************************************************************)
\* Window.connect: ua_client.connect(uri), an exception of it is shown and
\* swallowed; _update_address_list(uri);
\* tree_ui.set_root_node(ua_client.client.nodes.root), which raises before it
\* touches the tree when client is None.  The description of the root is
\* read only over a connected session.
WindowConnect ==
    \E discOk, connOk, described \in BOOLEAN :
      LET c == connect(ua, discOk, connOk)
      IN  /\ described => c.outcome = "ok"
          /\ ua' = c.u
          /\ address_list' = _update_address_list(address_list, address_list[1])
          /\ UNCHANGED lastUpdate
          /\ IF c.u.client
             THEN Install(TreeWidget_set_root_node(Model, RootNode, described).m)
             ELSE UNCHANGED <<items, fetched>>
          /\ lastDc' = [op |-> "connect", node |-> None, outcome |-> c.outcome]
          /\ UNCHANGED <<lastOp, dc_subscribed_nodes, dc_rows, ev_subscribed_nodes>>

\* Window.disconnect: ua_client.disconnect(); in the finally branch the tree
\* and the subscription lists are cleared
WindowDisconnect ==
    \E libOk \in BOOLEAN :
      LET d == disconnect(ua, libOk)
      IN  /\ Install(clear(Model))
          /\ InstallSession(EventUI_clear(DataChangeUI_clear([Session EXCEPT !.ua = d.u])))
          /\ lastDc' = [op |-> "disconnect", node |-> None, outcome |-> d.outcome]
          /\ UNCHANGED <<lastOp, addrVars>>

\* actionSubscribeDataChange or a drop on the subscription view
DcSubscribe ==
    \E node \in SubNodes \cup {None}, named \in BOOLEAN,
       lib \in {"ok", "create_raised", "subscribe_raised"} :
      /\ named => ua.connected
      /\ lib = "ok" => (ua.connected /\ ua.datachange_sub.next <= MaxHandles)
      /\ InstallSession(DataChangeUI_subscribe(Session, node, named, lib).s)
      /\ lastDc' = [op |-> "subscribe", node |-> node,
                    outcome |-> DataChangeUI_subscribe(Session, node, named, lib).outcome]
      /\ UNCHANGED <<treeVars, addrVars>>

\* actionUnsubscribeDataChange; the library takes back only a handle it
\* monitors
DcUnsubscribe ==
    \E node \in SubNodes \cup {None}, libOk \in BOOLEAN :
      /\ libOk => /\ ua.connected
                  /\ node \in DOMAIN ua.subs_dc
                  /\ ua.subs_dc[node] \in ua.datachange_sub.monitored
      /\ InstallSession(DataChangeUI_unsubscribe(Session, node, libOk).s)
      /\ lastDc' = [op |-> "unsubscribe", node |-> node,
                    outcome |-> DataChangeUI_unsubscribe(Session, node, libOk).outcome]
      /\ UNCHANGED <<treeVars, addrVars>>

\* actionSubscribeEvent or a drop on the event view
EvSubscribe ==
    \E node \in SubNodes \cup {None},
       lib \in {"ok", "create_raised", "subscribe_raised"} :
      /\ lib = "ok" => (ua.connected /\ ua.event_sub.next <= MaxHandles)
      /\ InstallSession(EventUI_subscribe(Session, node, lib).s)
      /\ lastDc' = [op |-> "ev_subscribe", node |-> node,
                    outcome |-> EventUI_subscribe(Session, node, lib).outcome]
      /\ UNCHANGED <<treeVars, addrVars>>

\* actionUnsubscribeEvents
EvUnsubscribe ==
    \E node \in SubNodes \cup {None}, libOk \in BOOLEAN :
      /\ libOk => /\ ua.connected
                  /\ node \in DOMAIN ua.subs_ev
                  /\ ua.subs_ev[node] \in ua.event_sub.monitored
      /\ InstallSession(EventUI_unsubscribe(Session, node, libOk).s)
      /\ lastDc' = [op |-> "ev_unsubscribe", node |-> node,
                    outcome |-> EventUI_unsubscribe(Session, node, libOk).outcome]
      /\ UNCHANGED <<treeVars, addrVars>>

NextDC ==
    \/ WindowConnect
    \/ WindowDisconnect
    \/ DcSubscribe
    \/ DcUnsubscribe
    \/ EvSubscribe
    \/ EvUnsubscribe

SpecDC == Init /\ [][NextDC]_vars

(***************************************************************************)
(* The address list: any list the setting address_list can hold that is    *)
(* non-empty, without duplicates and not longer than                       *)
(* address_list_max_count, and the calls of _update_address_list           *)
(***************************************************************************)
AddressLists ==
    UNION {{l \in [1..k -> Uris] : \A i, j \in 1..k : i # j => l[i] # l[j]} :
           k \in 1..address_list_max_count}

InitAddr ==
    /\ items = EmptyItems
    /\ fetched = {}
    /\ lastOp = Op("init", Invalid, FALSE, "ok", 0, 0, <<>>, <<>>, "other")
    /\ ua = UaClient_init
    /\ dc_subscribed_nodes = <<>>
    /\ dc_rows = <<>>
    /\ ev_subscribed_nodes = <<>>
    /\ lastDc = [op |-> "init", node |-> None, outcome |-> "ok"]
    /\ address_list \in AddressLists
    /\ lastUpdate = [uri |-> None, before |-> <<>>]

\* _update_address_list(uri) with the uri of the combo box
UpdateAddressList ==
    \E uri \in Uris :
      /\ address_list' = _update_address_list(address_list, uri)
      /\ lastUpdate' = [uri |-> uri, before |-> address_list]
      /\ UNCHANGED <<treeVars, dcVars>>

NextAddr == UpdateAddressList

SpecAddr == InitAddr /\ [][NextAddr]_vars

(***************************************************************************)
(* Properties                                                              *)
(***************************************************************************)
\* the rows of an item, in order
Kids(its, idx) == [k \in 1..rowCount(its, idx) |-> its[idx \o <<k>>]]

Marked(f, its, idx) == its[idx].node \in f

\* C1: when get_children_descriptions raises in the first fetch of an entry
\* (canFetchMore returned True), the entry is not left marked as fetched, so
\* the next request fetches again.
C1_FailedFetchLeavesUnfetched ==
    (lastOp.op = "request" /\ lastOp.ret /\ lastOp.outcome = "source_raised")
        => ~Marked(fetched, items, lastOp.item)

\* C2: a fetch that fails while the child entries are built (get_child
\* raises at the k-th description, after earlier children were appended)
\* leaves the entry's children and its fetched mark as they were before the
\* call.
C2_FailedFetchIsNoOp ==
    [][(lastOp'.op = "request" /\ lastOp'.outcome = "child_raised") =>
         /\ Subtree(items', lastOp'.item) = Subtree(items, lastOp'.item)
         /\ Marked(fetched', items', lastOp'.item) = Marked(fetched, items, lastOp'.item)]_vars

\* C3: of two successive requests for the children of the same entry, with
\* no reload or clear in between, at most one calls get_children_descriptions
\* and the second leaves the entry's children as the first left them.
C3_SuccessiveRequestsFetchOnce ==
    [][(lastOp.op = "request" /\ lastOp'.op = "request" /\ lastOp'.item = lastOp.item) =>
         /\ lastOp.calls + lastOp'.calls <= 1
         /\ Subtree(items', lastOp.item) = Subtree(items, lastOp.item)]_vars

\* a request found the entry fetched and populated by an earlier request
C3_Witness ==
    /\ lastOp.op = "request"
    /\ lastOp.item # Invalid /\ ~lastOp.ret /\ lastOp.calls = 0
    /\ Marked(fetched, items, lastOp.item)
    /\ rowCount(items, lastOp.item) = 2

\* C4: after a fetch of an entry succeeded with an empty answer, hasChildren
\* of the entry returns false and makes no call to the server.
C4_EmptyEntryIsTerminal ==
    [][(/\ lastOp.op = "request" /\ lastOp.ret /\ lastOp.outcome = "ok"
        /\ lastOp.answer = <<>>
        /\ lastOp'.op = "hasChildren" /\ lastOp'.item = lastOp.item) =>
         (lastOp'.outcome = "ok" /\ ~lastOp'.ret /\ lastOp'.calls = 0)]_vars

\* C5: a request for the children of an entry right after its reload calls
\* get_children_descriptions anew (canFetchMore returns True), and the
\* request after that one does not (canFetchMore returns False).
C5_ReloadForcesOneFetch ==
    [][/\ (lastOp.op = "reload" /\ lastOp'.op = "request" /\ lastOp'.item = lastOp.item)
            => (lastOp'.ret /\ lastOp'.calls = 1)
       /\ (/\ lastOp.op = "request" /\ lastOp.before = "reload"
           /\ lastOp'.op = "request" /\ lastOp'.item = lastOp.item)
            => (~lastOp'.ret /\ lastOp'.calls = 0)]_vars

\* the entry was fetched again after its reload, with a non-empty answer
C5_Witness ==
    /\ lastOp.op = "request" /\ lastOp.before = "reload"
    /\ lastOp.ret /\ lastOp.outcome = "ok" /\ lastOp.calls = 1
    /\ lastOp.answer # <<>>
    /\ Marked(fetched, items, lastOp.item)

\* C6: after the reload of an entry and a fetch that succeeds, the entry's
\* children are exactly one new row per description of the answer: no row of
\* the earlier fetch is left and no NodeId occurs twice.
C6_RefetchIsCleanRebuild ==
    (/\ lastOp.op = "request" /\ lastOp.before = "reload"
     /\ lastOp.ret /\ lastOp.outcome = "ok") =>
        LET kids == Kids(items, lastOp.item)
        IN  /\ Len(kids) = Len(lastOp.answer)
            /\ {kids[k].nodeid : k \in 1..Len(kids)}
                 = {lastOp.answer[k].NodeId : k \in 1..Len(lastOp.answer)}
            /\ \A i, j \in 1..Len(kids) : i # j => kids[i].nodeid # kids[j].nodeid
            /\ \A k \in 1..Len(kids) : rowCount(items, lastOp.item \o <<k>>) = 0

\* the root, reloaded and fetched again, has the one child of the answer
C6_Witness ==
    /\ lastOp.op = "request" /\ lastOp.before = "reload"
    /\ lastOp.ret /\ lastOp.outcome = "ok"
    /\ Len(lastOp.answer) = 1
    /\ rowCount(items, lastOp.item) = 1

\* C7: the children of every entry are in ascending order of browse name.
C7_ChildrenSorted ==
    \A idx \in DOMAIN items :
      \A i, j \in 1..rowCount(items, idx) :
        i < j => ~QNameLess(BrowseNameOf[items[idx \o <<j>>].nodeid],
                            BrowseNameOf[items[idx \o <<i>>].nodeid])

\* C8: get_current_path returns the browse names from the root down to the
\* entry without the root itself; the empty sequence for the root.
C8_PathExcludesRoot ==
    (lastOp.op = "path" /\ lastOp.outcome = "ok" /\ lastOp.item # Invalid) =>
        lastOp.path = [k \in 1..(Len(lastOp.item) - 1) |->
                         to_string(BrowseNameOf[
                            items[SubSeq(lastOp.item, 1, k + 1)].node])]

\* C8 as amended: get_current_path returns the browse names from the root
\* down to the entry, the root included; the empty sequence only when there
\* is no current entry.
C8_PathIncludesRoot ==
    (lastOp.op = "path" /\ lastOp.outcome = "ok") =>
        lastOp.path = [k \in 1..Len(lastOp.item) |->
                         to_string(BrowseNameOf[
                            items[SubSeq(lastOp.item, 1, k)].node])]

\* the path of an entry two levels below the root whose names differ
C8_Witness ==
    /\ lastOp.op = "path" /\ lastOp.outcome = "ok"
    /\ Len(lastOp.item) = 3 /\ Len(lastOp.path) = 3
    /\ lastOp.path[1] # lastOp.path[2]

\* C9: get_current_path makes no call to the server and changes nothing in
\* the model.
C9_PathIsPure ==
    [][lastOp'.op = "path" =>
         /\ lastOp'.calls = 0 /\ lastOp'.reads = 0
         /\ UNCHANGED <<items, fetched>>]_vars

C11_FailedSetRootIsNoOp ==
    [][(lastOp'.op = "set_root" /\ lastOp'.outcome = "raised") =>
         UNCHANGED <<items, fetched>>]_vars

\* C12: after clear the model is as TreeWidget.__init__ left it: it holds no
\* item, not even the root, and no node is marked fetched, so that
\* TreeViewModel.set_root_node passes its assertion as on a new model.
C12_ClearRestoresInitial ==
    lastOp.op = "clear" =>
        /\ DOMAIN items = {}
        /\ fetched = {}
        /\ set_root_node(Model, RootNode, TRUE).outcome = "ok"
        /\ DOMAIN set_root_node(Model, RootNode, TRUE).m.items = {<<1>>}

\* clear ran on a tree with fetched entries
C12_Witness ==
    lastOp.op = "clear" /\ lastOp.before = "populated" /\ DOMAIN items = {}

\* C13: hasChildren on an entry that is not fetched performs the fetch: after
\* it returned, the entry is marked fetched, its children are populated and
\* the boolean returned says whether the entry has a child.
C13_HasChildrenFetches ==
    [][(/\ lastOp'.op = "hasChildren" /\ lastOp'.outcome = "ok"
        /\ lastOp'.item # Invalid
        /\ ~Marked(fetched, items, lastOp'.item)) =>
         /\ Marked(fetched', items', lastOp'.item)
         /\ lastOp'.ret = (rowCount(items', lastOp'.item) > 0)]_vars

\* C13 as amended: hasChildren on an entry that is not fetched asks the
\* server once for the children descriptions and returns whether the answer
\* is non-empty; it marks nothing as fetched and adds or removes no item.
C13_HasChildrenOnlyAsks ==
    [][(/\ lastOp'.op = "hasChildren" /\ lastOp'.outcome = "ok"
        /\ lastOp'.item # Invalid
        /\ ~Marked(fetched, items, lastOp'.item)) =>
         /\ lastOp'.calls = 1
         /\ lastOp'.ret = (Len(lastOp'.answer) > 0)
         /\ fetched' = fetched
         /\ items' = items]_vars

\* hasChildren returned true for an entry that is not fetched and has no row
C13_Witness ==
    /\ lastOp.op = "hasChildren" /\ lastOp.outcome = "ok"
    /\ lastOp.item # Invalid /\ lastOp.ret
    /\ ~Marked(fetched, items, lastOp.item)
    /\ rowCount(items, lastOp.item) = 0

\* C14: for the invalid index (the placeholder above the root) hasChildren
\* returns true in every state, also on an empty model, without a call to the
\* server; canFetchMore returns False for it and marks nothing as fetched.
C14_PlaceholderHasChildren ==
    [][/\ (lastOp'.op = "hasChildren" /\ lastOp'.item = Invalid) =>
            /\ lastOp'.ret /\ lastOp'.outcome = "ok"
            /\ lastOp'.calls = 0 /\ lastOp'.reads = 0
            /\ UNCHANGED <<items, fetched>>
       /\ (lastOp'.op = "request" /\ lastOp'.item = Invalid) =>
            /\ ~lastOp'.ret /\ lastOp'.outcome = "ok"
            /\ lastOp'.calls = 0 /\ lastOp'.reads = 0
            /\ UNCHANGED <<items, fetched>>]_vars

\* hasChildren answered for the placeholder of an empty model
C14_Witness ==
    /\ lastOp.op = "hasChildren" /\ lastOp.item = Invalid
    /\ lastOp.ret /\ lastOp.calls = 0
    /\ DOMAIN items = {}

\* C15: no two items of the tree carry the same NodeId, also when the server
\* reports a node as a child of two parents or as a descendant of itself.
C15_IdentityUnique ==
    \A p, q \in DOMAIN items : p # q => items[p].nodeid # items[q].nodeid

\* C16: every item that is in the tree and marked fetched was populated by a
\* fetch made on it since it was created; in particular no node is left
\* marked fetched by the reload that discarded its items, at whatever depth
\* below the reloaded item they were: every marked node is the node of an
\* item of the tree.
C16_NoStaleMarks ==
    \A n \in fetched : \E p \in DOMAIN items : items[p].node = n

\* C17: the reload of an item (with the reset_cache calls it makes) leaves
\* every item that is neither the reloaded one nor below it in the tree, with
\* the same fetched mark and the same children: ancestors and siblings stay
\* as they were.
C17_ReloadFrame ==
    [][lastOp'.op = "reload" =>
         \A p \in DOMAIN items :
           ~Below(lastOp'.item, p) =>
             /\ p \in DOMAIN items'
             /\ items'[p] = items[p]
             /\ Kids(items', p) = Kids(items, p)
             /\ Marked(fetched', items', p) = Marked(fetched, items, p)]_vars

\* C18: when get_children_descriptions answers two descriptions of the same
\* browse name, the fetch makes a row of each, and the two rows stand in the
\* order in which the server gave the descriptions.
C18_EqualNamesKeepSourceOrder ==
    (lastOp.op = "request" /\ lastOp.ret /\ lastOp.outcome = "ok") =>
        LET answer == lastOp.answer
            kids == Kids(items, lastOp.item)
            off == Len(kids) - Len(answer)
        IN  /\ off >= 0
            /\ \A i, j \in 1..Len(answer) :
                 (i < j /\ answer[i].BrowseName = answer[j].BrowseName) =>
                   \E a, b \in 1..Len(answer) :
                     /\ a < b
                     /\ kids[off + a].nodeid = answer[i].NodeId
                     /\ kids[off + b].nodeid = answer[j].NodeId

\* a fetch whose answer gave node 3 before node 2, both of one browse name
C18_Witness ==
    /\ lastOp.op = "request" /\ lastOp.ret /\ lastOp.outcome = "ok"
    /\ Len(lastOp.answer) = 2
    /\ lastOp.answer[1].BrowseName = lastOp.answer[2].BrowseName
    /\ lastOp.answer[1].NodeId > lastOp.answer[2].NodeId
    /\ rowCount(items, lastOp.item) = 2

\* C19: every item built by a fetch stores the node of the description it was
\* built from: the node in the item (Qt.UserRole) and the NodeId shown in its
\* third column are the same node, also for siblings of one browse name.
C19_NodeMatchesNodeId ==
    \A p \in DOMAIN items : items[p].node = items[p].nodeid

\* the rows of the subscription model that carry node n
RowsOf(rows, n) == Cardinality({i \in 1..Len(rows) : rows[i] = n})

\* C20: in DataChangeUI, after any sequence of _subscribe, _unsubscribe and
\* clear, a node is in _subscribed_nodes exactly when it has one row in the
\* subscription model; a node whose subscribe failed is in neither.
C20_SubscribedIffRow ==
    /\ \A n \in Nodes :
         (n \in Range(dc_subscribed_nodes)) <=> (RowsOf(dc_rows, n) = 1)
    /\ (lastDc.op = "subscribe" /\ lastDc.outcome \in {"raised", "assert"}) =>
         /\ lastDc.node \notin Range(dc_subscribed_nodes)
         /\ RowsOf(dc_rows, lastDc.node) = 0

\* every node DataChangeUI or EventUI lists as subscribed has a handle in
\* _subs_dc resp. _subs_ev, and the subscription object exists
ListedHaveHandles(u, dcn, evn) ==
    /\ \A n \in Range(dcn) : u.datachange_sub.made /\ n \in DOMAIN u.subs_dc
    /\ \A n \in Range(evn) : u.event_sub.made /\ n \in DOMAIN u.subs_ev

\* C21: after any sequence of Window.connect, Window.disconnect, subscribe
\* and unsubscribe, every node that DataChangeUI or EventUI lists as
\* subscribed has a handle held by UaClient on an existing subscription
\* object; stated for the step the claim names, a Window.connect (also while
\* connected) from a state where this is so leads to a state where it is so.
C21_ConnectKeepsHandles ==
    [][(/\ lastDc'.op = "connect"
        /\ ListedHaveHandles(ua, dc_subscribed_nodes, ev_subscribed_nodes)) =>
         ListedHaveHandles(ua', dc_subscribed_nodes', ev_subscribed_nodes')]_vars

\* C22: UaClient.disconnect called while connected ends with the session
\* state reset (client None, _connected False, both subscription objects
\* None, both handle maps empty), whether the library's disconnect returned
\* or raised; called while not connected it changes nothing of UaClient.
C22_DisconnectResets ==
    [][lastDc'.op = "disconnect" =>
         IF ua.connected
         THEN /\ ~ua'.client /\ ~ua'.connected
              /\ ~ua'.datachange_sub.made /\ ~ua'.event_sub.made
              /\ ua'.datachange_sub.monitored = {} /\ ua'.event_sub.monitored = {}
              /\ DOMAIN ua'.subs_dc = {} /\ DOMAIN ua'.subs_ev = {}
         ELSE ua' = ua]_vars

\* the library's disconnect raised and the session state is reset
C22_Witness ==
    /\ lastDc.op = "disconnect" /\ lastDc.outcome = "raised"
    /\ ~ua.client /\ ~ua.connected
    /\ ~ua.datachange_sub.made /\ DOMAIN ua.subs_dc = {}

\* C23: the keys of _subs_dc (resp. _subs_ev) are exactly the nodes with an
\* active data-change (resp. event) subscription, a handle the subscription
\* object monitors: subscribe adds the node's handle and unsubscribe removes
\* it.
C23_KeysAreActive ==
    /\ {ua.subs_dc[n] : n \in DOMAIN ua.subs_dc} = ua.datachange_sub.monitored
    /\ {ua.subs_ev[n] : n \in DOMAIN ua.subs_ev} = ua.event_sub.monitored

\* C24: starting from a non-empty address list without duplicates of at most
\* address_list_max_count entries, after any sequence of
\* _update_address_list(uri) calls the list has no duplicate, is not longer
\* than address_list_max_count, and the uri passed last is its first entry.
C24_AddressListKept ==
    /\ \A i, j \in 1..Len(address_list) : i # j => address_list[i] # address_list[j]
    /\ Len(address_list) <= address_list_max_count
    /\ lastUpdate.uri # None =>
         (Len(address_list) >= 1 /\ address_list[1] = lastUpdate.uri)

\* a new uri was put in front of a full list, and the last entry went
C24_Witness ==
    /\ lastUpdate.uri # None
    /\ Len(lastUpdate.before) = address_list_max_count
    /\ lastUpdate.uri \notin Range(lastUpdate.before)
    /\ address_list[1] = lastUpdate.uri
    /\ Len(address_list) = address_list_max_count

====
